---- MODULE Spec2Model ----
(***************************************************************************)
(* Model of app/core/medoid.py: compute_folder_medoids and its helpers     *)
(* _normalize_embeddings, _compute_medoid_for_indices, _cluster_by_tag and *)
(* _cluster_by_embedding.                                                  *)
(*                                                                         *)
(* Arithmetic.  Embedding rows are integer vectors whose Euclidean norm is *)
(* an integer dividing UnitScale * row, so a normalized row r / |r| is     *)
(* held exactly as the integer vector UnitScale * r / |r|.  A centroid     *)
(* mean(vectors) / |mean(vectors)| is held as the sum S of the (scaled)    *)
(* member vectors: the unit centroid is S / |S| (or the zero vector when   *)
(* S = 0), and a similarity v . centroid is the real number                *)
(* (v . S) / (UnitScale * |S|), compared exactly by squaring.              *)
(***************************************************************************)
EXTENDS Integers, Sequences, FiniteSets, TLC

VARIABLES
    \* inputs of the call
    folder_to_indices,            \* ordered mapping: sequence of [folder, indices]
    embeddings,                   \* [ndim, rows]: rows is a sequence of integer vectors
    tags_per_index,               \* None or a function index -> sequence of raw tags
    use_tag_clusters,
    min_cluster_size,
    cluster_mode,
    embedding_cluster_threshold,  \* the rational <<numerator, denominator>>
    max_embedding_clusters,       \* None or an integer (the argument as passed)
    \* locals of compute_folder_medoids
    pc,                           \* "start", "loop", "embed", "done", "raised"
    error,                        \* the ValueError message once raised, else NoError
    max_clusters,                 \* max_embedding_clusters after line 60-61
    normalized,                   \* sequence of scaled unit rows
    results,                      \* ordered mapping: sequence of [folder, result]
    gi,                           \* position of the for loop in folder_to_indices
    valid_indices,
    group_medoid,                 \* [medoid_index, cosine_to_centroid] of the group
    cluster_entries,
    \* locals of _cluster_by_embedding
    remaining,
    assigned,
    clusters,
    \* history: the members of the clusters the current call of
    \* _cluster_by_embedding has discarded (line 217 false)
    discarded,
    \* the number of the current call of compute_folder_medoids, from 1
    invocation

inputs == <<folder_to_indices, embeddings, tags_per_index, use_tag_clusters,
            min_cluster_size, cluster_mode, embedding_cluster_threshold,
            max_embedding_clusters>>
locals == <<pc, error, max_clusters, normalized, results, gi, valid_indices,
            group_medoid, cluster_entries>>
emblocals == <<remaining, assigned, clusters>>
vars == <<inputs, locals, emblocals, discarded, invocation>>

\* Optional[T]: None is the empty sequence, a value x is <<x>>
None == <<>>
Some(x) == <<x>>
Value(opt) == opt[1]

NoError == "no error"

VALID_CLUSTER_MODES == {"simple", "hybrid"}

----------------------------------------------------------------------------
(* Sequence helpers (Python list operations).                              *)

Range(s) == {s[i] : i \in DOMAIN s}

\* [x for x in s if Keep(x)]
RECURSIVE FilterIdx(_, _)
FilterIdx(s, keepset) ==
    IF s = <<>> THEN <<>>
    ELSE IF Head(s) \in keepset THEN <<Head(s)>> \o FilterIdx(Tail(s), keepset)
    ELSE FilterIdx(Tail(s), keepset)

\* list(dict.fromkeys(s)): first occurrences, order kept
RECURSIVE DedupeKeepOrder(_)
DedupeKeepOrder(s) ==
    IF s = <<>> THEN <<>>
    ELSE LET init == DedupeKeepOrder(SubSeq(s, 1, Len(s) - 1))
             x == s[Len(s)]
         IN IF x \in Range(init) THEN init ELSE Append(init, x)

RECURSIVE InsertInt(_, _)
InsertInt(x, s) ==
    IF s = <<>> THEN <<x>>
    ELSE IF x < Head(s) THEN <<x>> \o s
    ELSE <<Head(s)>> \o InsertInt(x, Tail(s))

\* sorted(list of int)
RECURSIVE SortedInts(_)
SortedInts(s) ==
    IF s = <<>> THEN <<>> ELSE InsertInt(s[Len(s)], SortedInts(SubSeq(s, 1, Len(s) - 1)))

----------------------------------------------------------------------------
(* Vectors.                                                                *)

Dot(u, v) == u[1] * v[1] + u[2] * v[2]
VAdd(u, v) == <<u[1] + v[1], u[2] + v[2]>>
ZeroVec == <<0, 0>>

\* np.linalg.norm of an integer vector of integer norm
Norm(v) == CHOOSE r \in 0..(Dot(v, v)) : r * r = Dot(v, v)

\* The rows an embedding matrix is built from: the directions (1,0), (4,3)/5
\* and (3,4)/5 at two lengths, the zero row, and the directions (-3,4)/5 and
\* (-4,3)/5, at right angles to (4,3)/5 and (3,4)/5.
EmbeddingVectors ==
    {<<10, 0>>, <<5, 0>>, <<4, 3>>, <<6, 8>>, <<3, 4>>, <<0, 0>>, <<0 - 3, 4>>, <<0 - 4, 3>>}

\* The least scale at which every normalized row is an integer vector.
UnitScale ==
    LET Fits(s) == \A v \in EmbeddingVectors : \A k \in 1..2 :
                      (s * v[k]) % (IF Norm(v) = 0 THEN 1 ELSE Norm(v)) = 0
    IN CHOOSE s \in 1..10 : Fits(s) /\ \A t \in 1..(s - 1) : ~Fits(t)

\* faulty variant: the row is not divided by its norm
NormalizeRowSkipped(v) == <<UnitScale * v[1], UnitScale * v[2]>>

\* one row of _normalize_embeddings: norm 0 is replaced by 1, then row / norm
NormalizeRow(v) ==
    LET n == Norm(v)
        d == IF n = 0 THEN 1 ELSE n
    IN <<(UnitScale * v[1]) \div d, (UnitScale * v[2]) \div d>>

_normalize_embeddings(rows) == [i \in DOMAIN rows |-> NormalizeRow(rows[i])]

\* faulty variant: the rows are divided in place
EmbeddingsNormalizedInPlace(emb, norm_rows) == [emb EXCEPT !.rows = norm_rows]

\* line 15: embeddings / norms is a new array; the argument keeps its rows
EmbeddingsAfterNormalize(emb, norm_rows) == emb

\* normalized_embeddings[idx] for a 0-based index
Row(norm_rows, idx) == norm_rows[idx + 1]

\* sum of normalized_embeddings[indices]
RECURSIVE SumRows(_, _)
SumRows(indices, norm_rows) ==
    IF indices = <<>> THEN ZeroVec
    ELSE VAdd(Row(norm_rows, Head(indices)), SumRows(Tail(indices), norm_rows))

\* vector @ centroid, where centroid is S / |S| (zero when S = 0), as the
\* real number num / sqrt(den2) (0 when den2 = 0)
Similarity(v, S) == [num |-> IF S = ZeroVec THEN 0 ELSE Dot(v, S),
                     den2 |-> UnitScale * UnitScale * Dot(S, S)]

\* similarity >= threshold, for threshold = thr[1] / thr[2] > 0
SimilarityAtLeast(sim, thr) ==
    /\ sim.den2 > 0
    /\ sim.num >= 0
    /\ sim.num * sim.num * thr[2] * thr[2] >= thr[1] * thr[1] * sim.den2

----------------------------------------------------------------------------
(* _compute_medoid_for_indices (indices non-empty).                        *)

\* faulty variant: the last position of the maximum
ArgMaxLast(sims) ==
    CHOOSE p \in DOMAIN sims :
        /\ \A q \in DOMAIN sims : sims[q].num <= sims[p].num
        /\ \A q \in (p + 1)..Len(sims) : sims[q].num < sims[p].num

\* np.argmax(similarities): the first position of the maximum.  All
\* similarities share the positive denominator UnitScale * |S|, so they are
\* ordered by their numerators.
ArgMax(sims) ==
    CHOOSE p \in DOMAIN sims :
        /\ \A q \in DOMAIN sims : sims[q].num <= sims[p].num
        /\ \A q \in 1..(p - 1) : sims[q].num < sims[p].num

\* lines 130-131: the selector raises on an empty index list
EmptyIndexSet == "indices cannot be empty"
IndicesEmpty(indices) == indices = <<>>

\* faulty variant: the position of the best item is returned in place of its index
MedoidPosition(indices, norm_rows) ==
    LET S == SumRows(indices, norm_rows)
        similarities == [p \in DOMAIN indices |-> Similarity(Row(norm_rows, indices[p]), S)]
        best_pos == ArgMax(similarities)
    IN [medoid_index |-> best_pos - 1,
        cosine_to_centroid |-> similarities[best_pos]]

_compute_medoid_for_indices(indices, norm_rows) ==
    LET S == SumRows(indices, norm_rows)
        similarities == [p \in DOMAIN indices |-> Similarity(Row(norm_rows, indices[p]), S)]
        best_pos == ArgMax(similarities)
    IN [medoid_index |-> indices[best_pos],
        cosine_to_centroid |-> similarities[best_pos]]

----------------------------------------------------------------------------
(* Tags.  A raw tag is a sequence of one-character strings, or NoneTag.    *)

NoneTag == <<"None">>

IsSpace(c) == c = " "
Lower(c) == CASE c = "C" -> "c" [] c = "D" -> "d" [] OTHER -> c
CodePoint(c) == CASE c = " " -> 32 [] c = "C" -> 67 [] c = "D" -> 68
                  [] c = "c" -> 99 [] c = "d" -> 100

RECURSIVE LStrip(_)
LStrip(t) == IF t # <<>> /\ IsSpace(Head(t)) THEN LStrip(Tail(t)) ELSE t
RECURSIVE RStrip(_)
RStrip(t) == IF t # <<>> /\ IsSpace(t[Len(t)]) THEN RStrip(SubSeq(t, 1, Len(t) - 1)) ELSE t

\* faulty variant: the tag is trimmed but keeps its case
NormalizeTagKeepCase(t) == RStrip(LStrip(t))

\* str(tag).strip().lower()
NormalizeTag(t) == LET s == RStrip(LStrip(t)) IN [i \in DOMAIN s |-> Lower(s[i])]

\* a < b for Python strings
RECURSIVE StrLess(_, _)
StrLess(a, b) ==
    IF b = <<>> THEN FALSE
    ELSE IF a = <<>> THEN TRUE
    ELSE IF CodePoint(Head(a)) # CodePoint(Head(b)) THEN CodePoint(Head(a)) < CodePoint(Head(b))
    ELSE StrLess(Tail(a), Tail(b))

\* tags_per_index.get(idx)
TagsOf(tags_map, idx) == IF idx \in DOMAIN tags_map THEN tags_map[idx] ELSE <<>>

\* the position of tag in buckets, 0 when it has no bucket yet
BucketPos(buckets, tag) ==
    IF \E p \in DOMAIN buckets : buckets[p].tag = tag
    THEN CHOOSE p \in DOMAIN buckets : buckets[p].tag = tag
    ELSE 0

\* lines 151-159 for one tag of idx
AddToBucket(buckets, raw, idx) ==
    IF raw = NoneTag THEN buckets
    ELSE LET normalized_tag == NormalizeTag(raw)
             p == BucketPos(buckets, normalized_tag)
         IN IF normalized_tag = <<>> THEN buckets
            ELSE IF p = 0 THEN Append(buckets, [tag |-> normalized_tag, bucket |-> <<idx>>])
            ELSE IF idx \in Range(buckets[p].bucket) THEN buckets
            ELSE [buckets EXCEPT ![p].bucket = Append(@, idx)]

RECURSIVE AddTags(_, _, _)
AddTags(buckets, tags, idx) ==
    IF tags = <<>> THEN buckets
    ELSE AddTags(AddToBucket(buckets, Head(tags), idx), Tail(tags), idx)

\* lines 146-159: the buckets after the loop over indices
RECURSIVE Buckets(_, _)
Buckets(indices, tags_map) ==
    IF indices = <<>> THEN <<>>
    ELSE LET idx == indices[Len(indices)]
         IN AddTags(Buckets(SubSeq(indices, 1, Len(indices) - 1), tags_map),
                    TagsOf(tags_map, idx), idx)

\* faulty variant: a bucket needs more than min_cluster_size members
KeepBucketStrict(unique_indices, min_size) == Len(unique_indices) > min_size

\* line 170: a bucket is kept when it has at least min_cluster_size members
KeepBucket(unique_indices, min_size) == Len(unique_indices) >= min_size

\* faulty variant: buckets of equal size are left in encounter order
TagClusterBeforeBySize(a, b) == Len(a.bucket) > Len(b.bucket)

\* the sort key (-len(item[1]), item[0]) of line 173
TagClusterBefore(a, b) ==
    \/ Len(a.bucket) > Len(b.bucket)
    \/ Len(a.bucket) = Len(b.bucket) /\ StrLess(a.tag, b.tag)

RECURSIVE InsertTagCluster(_, _)
InsertTagCluster(x, s) ==
    IF s = <<>> THEN <<x>>
    ELSE IF ~TagClusterBefore(Head(s), x) THEN <<x>> \o s
    ELSE <<Head(s)>> \o InsertTagCluster(x, Tail(s))

\* clusters.sort(...): a stable sort of the kept buckets
RECURSIVE SortTagClusters(_)
SortTagClusters(s) ==
    IF s = <<>> THEN <<>> ELSE InsertTagCluster(Head(s), SortTagClusters(Tail(s)))

RECURSIVE KeptBuckets(_, _)
KeptBuckets(buckets, min_size) ==
    IF buckets = <<>> THEN <<>>
    ELSE LET b == Head(buckets)
             unique_indices == DedupeKeepOrder(b.bucket)
             rest == KeptBuckets(Tail(buckets), min_size)
         IN IF KeepBucket(unique_indices, min_size)
            THEN <<[tag |-> b.tag, bucket |-> unique_indices]>> \o rest
            ELSE rest

_cluster_by_tag(indices, tags_map, min_size) ==
    SortTagClusters(KeptBuckets(Buckets(indices, tags_map), min_size))

----------------------------------------------------------------------------
(* _cluster_by_embedding, one iteration of its while loop at a time.       *)

\* faulty variant: the item is compared with the seed alone
AbsorbsSeedOnly(idx, cluster_members, norm_rows, thr) ==
    SimilarityAtLeast(Similarity(Row(norm_rows, idx), Row(norm_rows, cluster_members[1])), thr)

\* line 207: the item is absorbed when its similarity to the running
\* centroid of cluster_members reaches the threshold
Absorbs(idx, cluster_members, norm_rows, thr) ==
    SimilarityAtLeast(Similarity(Row(norm_rows, idx), SumRows(cluster_members, norm_rows)), thr)

\* faulty variant: an absorbed item is neither marked assigned nor taken out
\* of the items kept for the following clusters
RECURSIVE ScanLeavesAbsorbed(_, _, _, _, _, _)
ScanLeavesAbsorbed(rest, cluster_members, asg, keep, norm_rows, thr) ==
    IF rest = <<>> THEN [cluster_members |-> cluster_members, assigned |-> asg, keep |-> keep]
    ELSE LET idx == Head(rest)
         IN IF idx \in asg
            THEN ScanLeavesAbsorbed(Tail(rest), cluster_members, asg, keep, norm_rows, thr)
            ELSE IF Absorbs(idx, cluster_members, norm_rows, thr)
            THEN ScanLeavesAbsorbed(Tail(rest), Append(cluster_members, idx), asg,
                                    Append(keep, idx), norm_rows, thr)
            ELSE ScanLeavesAbsorbed(Tail(rest), cluster_members, asg, Append(keep, idx),
                                    norm_rows, thr)

\* lines 202-214: the scan of remaining; the result is
\* [cluster_members, assigned, keep]
RECURSIVE Scan(_, _, _, _, _, _)
Scan(rest, cluster_members, asg, keep, norm_rows, thr) ==
    IF rest = <<>> THEN [cluster_members |-> cluster_members, assigned |-> asg, keep |-> keep]
    ELSE LET idx == Head(rest)
         IN IF idx \in asg
            THEN Scan(Tail(rest), cluster_members, asg, keep, norm_rows, thr)
            ELSE IF Absorbs(idx, cluster_members, norm_rows, thr)
            THEN Scan(Tail(rest), Append(cluster_members, idx), asg \cup {idx}, keep,
                      norm_rows, thr)
            ELSE Scan(Tail(rest), cluster_members, asg, Append(keep, idx), norm_rows, thr)

\* faulty variant: the members a discarded cluster absorbed are put back
RemainingRequeued(scan, kept) ==
    IF kept THEN scan.keep ELSE scan.keep \o Tail(scan.cluster_members)

\* faulty variant: a rejected item is put at the front of keep
RemainingKeptReversed(scan, kept) ==
    [i \in 1..Len(scan.keep) |-> scan.keep[Len(scan.keep) + 1 - i]]

\* faulty variant: the seed goes back to the front of remaining
RemainingWithSeed(scan, kept) == <<Head(scan.cluster_members)>> \o scan.keep

\* line 216: remaining = keep, whether or not the cluster is kept
RemainingAfterScan(scan, kept) == scan.keep

\* faulty variant: the members of discarded clusters use up the cap
LoopConditionCountsDiscarded(rem, cls, max) ==
    rem # <<>> /\ (IF max = None THEN TRUE
                   ELSE Len(cls) + Cardinality(discarded) < Value(max))

\* faulty variant: one cluster more than max_clusters is formed
LoopConditionInclusive(rem, cls, max) ==
    rem # <<>> /\ (IF max = None THEN TRUE ELSE Len(cls) <= Value(max))

\* line 192: the loop condition
LoopCondition(rem, cls, max) ==
    rem # <<>> /\ (IF max = None THEN TRUE ELSE Len(cls) < Value(max))

\* faulty variant: a cluster of exactly min_size members is discarded
KeepClusterStrict(cluster_members, min_size) == Len(cluster_members) > min_size

\* faulty variant: every finished cluster is kept
KeepClusterAlways(cluster_members, min_size) == Len(cluster_members) >= 1

\* line 217: the finished cluster is kept
KeepCluster(cluster_members, min_size) == Len(cluster_members) >= min_size

\* line 190
MinSize(min_size) == IF min_size > 1 THEN min_size ELSE 1

\* faulty variant: clusters of equal size are left in formation order
EmbClusterBeforeBySize(a, b) == Len(a) > Len(b)

\* the sort key (-len(cluster), cluster[0] if cluster else -1) of line 220
EmbClusterBefore(a, b) ==
    LET ka == IF a = <<>> THEN -1 ELSE a[1]
        kb == IF b = <<>> THEN -1 ELSE b[1]
    IN \/ Len(a) > Len(b)
       \/ Len(a) = Len(b) /\ ka < kb

RECURSIVE InsertEmbCluster(_, _)
InsertEmbCluster(x, s) ==
    IF s = <<>> THEN <<x>>
    ELSE IF ~EmbClusterBefore(Head(s), x) THEN <<x>> \o s
    ELSE <<Head(s)>> \o InsertEmbCluster(x, Tail(s))

RECURSIVE SortEmbClusters(_)
SortEmbClusters(s) ==
    IF s = <<>> THEN <<>> ELSE InsertEmbCluster(Head(s), SortEmbClusters(Tail(s)))

\* faulty variant: assigned survives from the group processed before
AssignedKept == assigned

\* line 188: assigned is a fresh set in every call of _cluster_by_embedding
AssignedAtEntry == {}

\* lines 193-218: the body of the while loop, from the loop's variables to
\* their values after one iteration
WhileBody(rem, asg, cls, min_size, norm_rows, thr) ==
    LET seed == Head(rem)
        scan == Scan(Tail(rem), <<seed>>, asg \cup {seed}, <<>>, norm_rows, thr)
        kept == KeepCluster(scan.cluster_members, min_size)
    IN IF seed \in asg
       THEN [remaining |-> Tail(rem), assigned |-> asg, clusters |-> cls]
       ELSE [remaining |-> RemainingAfterScan(scan, kept),
             assigned |-> scan.assigned,
             clusters |-> IF kept THEN Append(cls, SortedInts(scan.cluster_members))
                          ELSE cls]

\* lines 192-218: the clusters when the while loop ends
RECURSIVE WhileLoop(_, _, _, _, _, _, _)
WhileLoop(rem, asg, cls, max, min_size, norm_rows, thr) ==
    IF LoopCondition(rem, cls, max)
    THEN LET b == WhileBody(rem, asg, cls, min_size, norm_rows, thr)
         IN WhileLoop(b.remaining, b.assigned, b.clusters, max, min_size, norm_rows, thr)
    ELSE cls

\* lines 177-221: the whole call
_cluster_by_embedding(indices, norm_rows, thr, max, min_size) ==
    IF indices = <<>> THEN <<>>
    ELSE SortEmbClusters(
             WhileLoop(DedupeKeepOrder(FilterIdx(indices,
                           {i \in Range(indices) : 0 <= i /\ i < Len(norm_rows)})),
                       {}, <<>>, max, MinSize(min_size), norm_rows, thr))

----------------------------------------------------------------------------
(* compute_folder_medoids.                                                 *)

\* line 67: the indices of the group that address a row
InRange(idx, n) == 0 <= idx /\ idx < n

\* faulty variant: index 0 is taken for out of range
ValidIndicesPositive(indices, n) == FilterIdx(indices, {i \in Range(indices) : 0 < i /\ i < n})

ValidIndices(indices, n) == FilterIdx(indices, {i \in Range(indices) : InRange(i, n)})

\* faulty variant: a threshold of 0 is accepted
ThresholdValidClosed(thr) == 0 <= thr[1] /\ thr[1] <= thr[2]

\* lines 52-59: the message of the first failing validation, or NoError
ThresholdValid(thr) == 0 < thr[1] /\ thr[1] <= thr[2]

\* faulty variant: cluster_mode is validated before min_cluster_size
ValidateModeFirst(ndim, min_size, mode, thr) ==
    IF ndim # 2 THEN "embeddings must be a 2D array"
    ELSE IF mode \notin VALID_CLUSTER_MODES THEN "cluster_mode must be one of ['hybrid', 'simple']"
    ELSE IF min_size < 1 THEN "min_cluster_size must be >= 1"
    ELSE IF ~ThresholdValid(thr) THEN "embedding_cluster_threshold must be in (0, 1]"
    ELSE NoError

Validate(ndim, min_size, mode, thr) ==
    IF ndim # 2 THEN "embeddings must be a 2D array"
    ELSE IF min_size < 1 THEN "min_cluster_size must be >= 1"
    ELSE IF mode \notin VALID_CLUSTER_MODES THEN "cluster_mode must be one of ['hybrid', 'simple']"
    ELSE IF ~ThresholdValid(thr) THEN "embedding_cluster_threshold must be in (0, 1]"
    ELSE NoError

\* faulty variant: only a negative max_embedding_clusters means unlimited
NormalizeMaxClustersNegative(max) == IF max # None /\ Value(max) < 0 THEN None ELSE max

\* lines 60-61
NormalizeMaxClusters(max) == IF max # None /\ Value(max) < 1 THEN None ELSE max

\* faulty variant: supplied tags are clustered whatever use_tag_clusters is
TagClusteringIgnoresFlag(use_tags, tags) == tags # None /\ DOMAIN Value(tags) # {}

\* line 75
TagClusteringOn(use_tags, tags) == use_tags /\ tags # None /\ DOMAIN Value(tags) # {}

\* faulty variant: the embedding pass runs in every mode
EmbeddingClusteringAlways(mode) == TRUE

\* line 93
EmbeddingClusteringOn(mode) == mode = "hybrid"

\* lines 78-90: the entry of one tag cluster
TagEntry(c, norm_rows) ==
    LET m == _compute_medoid_for_indices(c.bucket, norm_rows)
        members == SortedInts(c.bucket)
    IN [cluster_type |-> "tag", tag |-> c.tag, label_hint |-> c.tag, members |-> members,
        medoid_index |-> m.medoid_index, cosine_to_centroid |-> m.cosine_to_centroid,
        size |-> Len(members)]

\* lines 103-115: the entry of the seq-th embedding cluster
EmbeddingEntry(seq, cluster_indices, norm_rows) ==
    LET m == _compute_medoid_for_indices(cluster_indices, norm_rows)
        members == SortedInts(cluster_indices)
    IN [cluster_type |-> "embedding", tag |-> <<>>, label_hint |-> <<"embedding_", seq>>,
        members |-> members,
        medoid_index |-> m.medoid_index, cosine_to_centroid |-> m.cosine_to_centroid,
        size |-> Len(members)]

\* faulty variant: no group is skipped
GroupSkippedNever(valid) == FALSE

\* lines 68-69: a group without a valid index is skipped
GroupSkipped(valid) == valid = <<>>

\* faulty variant: the tags of every row are bucketed, not those of the group
TagClustersOfEveryRow(valid, use_tags, tags, min_size) ==
    IF TagClusteringOn(use_tags, tags)
    THEN _cluster_by_tag([i \in 1..Len(normalized) |-> i - 1], Value(tags), min_size)
    ELSE <<>>

\* lines 75-76: the tag clusters of a group
TagClusters(valid, use_tags, tags, min_size) ==
    IF TagClusteringOn(use_tags, tags)
    THEN _cluster_by_tag(valid, Value(tags), min_size)
    ELSE <<>>

\* lines 74-91: the tag entries of a group
TagEntries(valid, use_tags, tags, min_size, norm_rows) ==
    LET cs == TagClusters(valid, use_tags, tags, min_size)
    IN [k \in DOMAIN cs |-> TagEntry(cs[k], norm_rows)]

\* lines 71, 79, 103: a call of the selector with one of these index lists
\* raises
SelectorRaises(index_lists) == \E k \in DOMAIN index_lists : IndicesEmpty(index_lists[k])

\* tagged_indices after line 91
TaggedIndices(entries) == UNION {Range(entries[k].members) : k \in DOMAIN entries}

\* faulty variant: the embedding pass receives every valid index
RemainingIndicesAll(valid, tagged) == valid

\* line 94
RemainingIndices(valid, tagged) == FilterIdx(valid, Range(valid) \ tagged)

\* faulty variant: the embedding entries are put in front
AllEntriesEmbeddingFirst(tag_entries, embedding_entries) == embedding_entries \o tag_entries

\* lines 77-115: clusters_output receives the tag entries, then the
\* embedding entries
AllEntries(tag_entries, embedding_entries) == tag_entries \o embedding_entries

\* faulty variant: the group size counts each valid index once
FolderResultDistinctSize(medoid, valid, mode, entries) ==
    [medoid_index |-> medoid.medoid_index,
     cosine_to_centroid |-> medoid.cosine_to_centroid,
     size |-> Cardinality(Range(valid)),
     cluster_mode |-> mode,
     clusters |-> entries]

\* lines 117-123
FolderResult(medoid, valid, mode, entries) ==
    [medoid_index |-> medoid.medoid_index,
     cosine_to_centroid |-> medoid.cosine_to_centroid,
     size |-> Len(valid),
     cluster_mode |-> mode,
     clusters |-> entries]

\* lines 67-123: the result of one group with a valid index, from the
\* group's index list, the normalized rows and the configuration
GroupResult(indices, norm_rows, use_tags, tags, min_size, mode, thr, max) ==
    LET valid == ValidIndices(indices, Len(norm_rows))
        medoid == _compute_medoid_for_indices(valid, norm_rows)
        tag_entries == TagEntries(valid, use_tags, tags, min_size, norm_rows)
        remaining_indices == RemainingIndices(valid, TaggedIndices(tag_entries))
        embedding_clusters ==
            IF EmbeddingClusteringOn(mode)
            THEN _cluster_by_embedding(remaining_indices, norm_rows, thr, max, min_size)
            ELSE <<>>
        embedding_entries ==
            [k \in DOMAIN embedding_clusters |->
                EmbeddingEntry(k, embedding_clusters[k], norm_rows)]
    IN FolderResult(medoid, valid, mode, AllEntries(tag_entries, embedding_entries))

----------------------------------------------------------------------------
(* The inputs of a call.                                                   *)

MaxLen == 3              \* longest index list of the first group
MaxMinClusterSize == 3   \* largest min_cluster_size
MaxCap == 1              \* largest max_embedding_clusters
MaxCalls == 2            \* calls of compute_folder_medoids in a row
MaxGroups == 3           \* most groups of a mapping

\* every sequence over S of length at most n
RECURSIVE SeqsUpTo(_, _)
SeqsUpTo(S, n) ==
    IF n = 0 THEN {<<>>}
    ELSE LET shorter == SeqsUpTo(S, n - 1)
         IN shorter \cup {Append(q, x) : q \in {r \in shorter : Len(r) = n - 1}, x \in S}

\* embedding matrices of three rows: a chain (1,0) - (4,3)/5 - (3,4)/5 whose
\* neighbours have cosine 0.8 and 0.96 and whose ends have cosine 0.6; rows of
\* equal direction and a zero row; the chain in another order
EmbeddingMatrices ==
    { <<(<<10, 0>>), (<<4, 3>>), (<<6, 8>>)>>,
      <<(<<5, 0>>), (<<10, 0>>), (<<0, 0>>)>>,
      <<(<<3, 4>>), (<<5, 0>>), (<<4, 3>>)>> }

NumRows(rows) == Len(rows)

\* indices from -1 (negative) to the number of rows (one past the end)
IndexValues(rows) == (0 - 1)..NumRows(rows)

\* tags {0: ["c", "c"], 1: [" C ", "d"], 2: ["D", None, " ", ""], 3: ["c"]}: two
\* tags shared by overlapping pairs of indices, and a tagged index past the end
RichTags ==
    Some((0 :> <<(<<"c">>), (<<"c">>)>>) @@ (1 :> <<(<<" ", "C", " ">>), (<<"d">>)>>)
         @@ (2 :> <<(<<"D">>), NoneTag, (<<" ">>), (<<>>)>>) @@ (3 :> <<(<<"c">>)>>))

\* tags {0: ["d"], 2: ["c"]}: index 1 is untagged
SparseTags == Some((0 :> <<(<<"d">>)>>) @@ (2 :> <<(<<"c">>)>>))

\* tags {0: ["c"], 1: ["dc"], 2: ["DC", "c"]}
LongTags ==
    Some((0 :> <<(<<"c">>)>>) @@ (1 :> <<(<<"d", "c">>)>>) @@ (2 :> <<(<<"D", "C">>), (<<"c">>)>>))

TagMaps == {None, Some(<<>>), RichTags, SparseTags, LongTags}

Thresholds == {<<0, 1>>, <<4, 5>>, <<24, 25>>, <<1, 1>>, <<3, 2>>}
ClusterModes == {"simple", "hybrid", "bogus"}
MaxClusterValues == {None} \cup {Some(k) : k \in (0 - 1)..MaxCap}

TypeLocalsInit ==
    /\ pc = "start"
    /\ error = NoError
    /\ max_clusters = None
    /\ normalized = <<>>
    /\ results = <<>>
    /\ gi = 0
    /\ valid_indices = <<>>
    /\ group_medoid = None
    /\ cluster_entries = <<>>
    /\ remaining = <<>>
    /\ assigned = {}
    /\ clusters = <<>>
    /\ discarded = {}
    /\ invocation = 1

\* every configuration, valid or not, on a few groups
InitConfigSweep ==
    /\ embeddings \in {[ndim |-> d, rows |-> m] : d \in 1..2, m \in EmbeddingMatrices}
    /\ tags_per_index \in TagMaps
    /\ use_tag_clusters \in BOOLEAN
    /\ min_cluster_size \in 0..MaxMinClusterSize
    /\ cluster_mode \in ClusterModes
    /\ embedding_cluster_threshold \in Thresholds
    /\ max_embedding_clusters \in MaxClusterValues
    /\ \E la \in {<<0, 1, 2>>, <<1, 3, 0>>, <<>>} :
          folder_to_indices = <<[folder |-> "a", indices |-> la],
                                [folder |-> "b", indices |-> <<3, 0 - 1>>]>>

\* every index list of the first group, with tag clustering on, on valid
\* configurations (under SparseTags and min_cluster_size >= 2 no tag cluster
\* is formed and the embedding pass receives every valid index)
InitDataSweep ==
    /\ embeddings \in {[ndim |-> 2, rows |-> m] : m \in EmbeddingMatrices}
    /\ tags_per_index \in {RichTags, SparseTags}
    /\ use_tag_clusters = TRUE
    /\ min_cluster_size \in 1..MaxMinClusterSize
    /\ cluster_mode \in VALID_CLUSTER_MODES
    /\ embedding_cluster_threshold \in {<<4, 5>>, <<24, 25>>}
    /\ max_embedding_clusters \in {None, Some(MaxCap)}
    /\ \E la \in SeqsUpTo(IndexValues(embeddings.rows), MaxLen),
          lb \in {<<3, 0 - 1>>, <<2, 0, 2>>} :
          folder_to_indices = <<[folder |-> "a", indices |-> la],
                                [folder |-> "b", indices |-> lb]>>

\* five rows: two of cosine 0.96 and three of one direction
LongMatrix == <<(<<4, 3>>), (<<3, 4>>), (<<5, 0>>), (<<10, 0>>), (<<5, 0>>)>>

\* every list of NumRows in-range indices over the five-row matrix, in hybrid
\* mode without tags
InitLongSweep ==
    /\ embeddings = [ndim |-> 2, rows |-> LongMatrix]
    /\ tags_per_index = None
    /\ use_tag_clusters = FALSE
    /\ min_cluster_size \in {MaxMinClusterSize - 1, MaxMinClusterSize}
    /\ cluster_mode = "hybrid"
    /\ embedding_cluster_threshold \in {<<4, 5>>, <<24, 25>>}
    /\ max_embedding_clusters \in {None, Some(MaxCap)}
    /\ \E la \in [1..NumRows(LongMatrix) -> 0..(NumRows(LongMatrix) - 1)] :
          folder_to_indices = <<[folder |-> "a", indices |-> la],
                                [folder |-> "b", indices |-> <<3, 0 - 1>>]>>

\* rows 1, 2 and rows 3, 4 are two pairs of cosine 0.96 whose cosines across
\* the pairs are 0, 0.28 and -0.28; rows 0, 1, 2 are the chain of cosines 0.8
\* and 0.96 whose ends have cosine 0.6
PairsMatrix == <<(<<5, 0>>), (<<4, 3>>), (<<3, 4>>), (<<0 - 3, 4>>), (<<0 - 4, 3>>)>>

\* every list of four indices over the two pairs as the first group, the
\* chain as the second, in hybrid mode without tags and min_cluster_size 1
InitPairsSweep ==
    /\ embeddings = [ndim |-> 2, rows |-> PairsMatrix]
    /\ tags_per_index = None
    /\ use_tag_clusters = FALSE
    /\ min_cluster_size = 1
    /\ cluster_mode = "hybrid"
    /\ embedding_cluster_threshold \in {<<4, 5>>, <<24, 25>>}
    /\ max_embedding_clusters \in {None, Some(MaxCap)}
    /\ \E la \in [1..(NumRows(PairsMatrix) - 1) -> 1..(NumRows(PairsMatrix) - 1)] :
          folder_to_indices = <<[folder |-> "a", indices |-> la],
                                [folder |-> "b", indices |-> <<0, 1, 2>>]>>

Init ==
    TypeLocalsInit /\ (InitConfigSweep \/ InitDataSweep \/ InitLongSweep \/ InitPairsSweep)

----------------------------------------------------------------------------
(* The steps of a call.                                                    *)

\* lines 52-64
Enter ==
    /\ pc = "start"
    /\ LET err == Validate(embeddings.ndim, min_cluster_size, cluster_mode,
                           embedding_cluster_threshold)
       IN IF err # NoError
          THEN /\ pc' = "raised"
               /\ error' = err
               /\ UNCHANGED <<max_clusters, normalized, results, gi, embeddings>>
          ELSE /\ pc' = "loop"
               /\ max_clusters' = NormalizeMaxClusters(max_embedding_clusters)
               /\ normalized' = _normalize_embeddings(embeddings.rows)
               /\ embeddings' = EmbeddingsAfterNormalize(embeddings,
                                     _normalize_embeddings(embeddings.rows))
               /\ results' = <<>>
               /\ gi' = 1
               /\ UNCHANGED error
    /\ UNCHANGED <<folder_to_indices, tags_per_index, use_tag_clusters, min_cluster_size,
                   cluster_mode, embedding_cluster_threshold, max_embedding_clusters>>
    /\ UNCHANGED <<valid_indices, group_medoid, cluster_entries, emblocals, discarded,
                   invocation>>

\* lines 66-69: a group without a valid index is skipped
SkipGroup ==
    /\ pc = "loop"
    /\ gi <= Len(folder_to_indices)
    /\ GroupSkipped(ValidIndices(folder_to_indices[gi].indices, Len(normalized)))
    /\ gi' = gi + 1
    /\ valid_indices' = <<>>
    /\ UNCHANGED <<inputs, pc, error, max_clusters, normalized, results, group_medoid,
                   cluster_entries, emblocals, discarded, invocation>>

\* lines 66-94 and, outside hybrid mode, lines 117-124; in hybrid mode the
\* call of _cluster_by_embedding begins (lines 184-190)
ProcessGroup ==
    /\ pc = "loop"
    /\ gi <= Len(folder_to_indices)
    /\ LET valid == ValidIndices(folder_to_indices[gi].indices, Len(normalized))
           medoid == _compute_medoid_for_indices(valid, normalized)
           entries == TagEntries(valid, use_tag_clusters, tags_per_index,
                                 min_cluster_size, normalized)
           remaining_indices == RemainingIndices(valid, TaggedIndices(entries))
           tag_clusters == TagClusters(valid, use_tag_clusters, tags_per_index,
                                       min_cluster_size)
       IN /\ ~GroupSkipped(valid)
          /\ valid_indices' = valid
          /\ IF SelectorRaises(<<valid>> \o [k \in DOMAIN tag_clusters |-> tag_clusters[k].bucket])
             THEN /\ pc' = "raised"
                  /\ error' = EmptyIndexSet
                  /\ UNCHANGED <<results, gi, group_medoid, cluster_entries, emblocals,
                                 discarded>>
             ELSE /\ group_medoid' = Some(medoid)
                  /\ cluster_entries' = entries
                  /\ UNCHANGED error
                  /\ IF EmbeddingClusteringOn(cluster_mode)
                     THEN /\ pc' = "embed"
                          /\ remaining' = DedupeKeepOrder(ValidIndices(remaining_indices,
                                                                     Len(normalized)))
                          /\ assigned' = AssignedAtEntry
                          /\ clusters' = <<>>
                          /\ discarded' = {}
                          /\ UNCHANGED <<results, gi>>
                     ELSE /\ results' = Append(results,
                                  [folder |-> folder_to_indices[gi].folder,
                                   result |-> FolderResult(medoid, valid, cluster_mode,
                                                           entries)])
                          /\ gi' = gi + 1
                          /\ UNCHANGED <<pc, emblocals, discarded>>
    /\ UNCHANGED <<inputs, max_clusters, normalized, invocation>>

\* lines 192-218: one iteration of the while loop
EmbedIter ==
    /\ pc = "embed"
    /\ LoopCondition(remaining, clusters, max_clusters)
    /\ LET seed == Head(remaining)
           scan == Scan(Tail(remaining), <<seed>>, assigned \cup {seed}, <<>>, normalized,
                        embedding_cluster_threshold)
           kept == KeepCluster(scan.cluster_members, MinSize(min_cluster_size))
       IN IF seed \in assigned
          THEN /\ remaining' = Tail(remaining)
               /\ UNCHANGED <<assigned, clusters, discarded>>
          ELSE /\ remaining' = RemainingAfterScan(scan, kept)
               /\ assigned' = scan.assigned
               /\ clusters' = IF kept
                               THEN Append(clusters, SortedInts(scan.cluster_members))
                               ELSE clusters
               /\ discarded' = IF kept THEN discarded
                                ELSE discarded \cup Range(scan.cluster_members)
    /\ UNCHANGED <<inputs, locals, invocation>>

\* lines 220-221, 102-124: the loop has ended; the clusters are sorted, their
\* entries appended and the group's result stored
EmbedFinish ==
    /\ pc = "embed"
    /\ ~LoopCondition(remaining, clusters, max_clusters)
    /\ LET embedding_clusters == SortEmbClusters(clusters)
           entries == AllEntries(cluster_entries,
                                 [k \in DOMAIN embedding_clusters |->
                                     EmbeddingEntry(k, embedding_clusters[k], normalized)])
       IN /\ clusters' = embedding_clusters
          /\ IF SelectorRaises(embedding_clusters)
             THEN /\ pc' = "raised"
                  /\ error' = EmptyIndexSet
                  /\ UNCHANGED <<cluster_entries, results, gi>>
             ELSE /\ cluster_entries' = entries
                  /\ results' = Append(results,
                          [folder |-> folder_to_indices[gi].folder,
                           result |-> FolderResult(Value(group_medoid), valid_indices,
                                                   cluster_mode, entries)])
                  /\ gi' = gi + 1
                  /\ pc' = "loop"
                  /\ UNCHANGED error
    /\ UNCHANGED <<inputs, max_clusters, normalized, valid_indices, group_medoid,
                   remaining, assigned, discarded, invocation>>

\* line 126
Return ==
    /\ pc = "loop"
    /\ gi > Len(folder_to_indices)
    /\ pc' = "done"
    /\ UNCHANGED <<inputs, error, max_clusters, normalized, results, gi, valid_indices,
                   group_medoid, cluster_entries, emblocals, discarded, invocation>>

Next == Enter \/ SkipGroup \/ ProcessGroup \/ EmbedIter \/ EmbedFinish \/ Return

Spec == Init /\ [][Next]_vars

\* the names of the groups, in the order of the mapping
FolderNames == <<"a", "b", "c", "d", "e">>

\* index lists of a group over the five-row matrix: one without a valid
\* index, two of every row and one whose first seed stays alone
GroupLists == {<<0 - 1, 5>>, <<0, 1, 2, 3, 4>>, <<4, 2, 2, 0, 1, 3>>, <<0, 2, 3>>}

\* every mapping of at most MaxGroups groups over GroupLists, with and
\* without tags, in both modes, min_cluster_size 0 included
InitGroupsSweep ==
    /\ embeddings = [ndim |-> 2, rows |-> LongMatrix]
    /\ tags_per_index \in {None, RichTags}
    /\ use_tag_clusters = TRUE
    /\ min_cluster_size \in 0..(MaxMinClusterSize - 1)
    /\ cluster_mode \in VALID_CLUSTER_MODES
    /\ embedding_cluster_threshold \in {<<4, 5>>, <<24, 25>>}
    /\ max_embedding_clusters \in {None, Some(MaxCap)}
    /\ \E lists \in SeqsUpTo(GroupLists, MaxGroups) :
          folder_to_indices = [k \in DOMAIN lists |->
                                  [folder |-> FolderNames[k], indices |-> lists[k]]]

\* lines 66-71: a group with a valid index is waiting to be processed
ProcessGroupEnabled ==
    /\ pc = "loop"
    /\ gi <= Len(folder_to_indices)
    /\ ~GroupSkipped(ValidIndices(folder_to_indices[gi].indices, Len(normalized)))

\* line 192: the while loop is at its test
EmbedIterEnabled == pc = "embed" /\ LoopCondition(remaining, clusters, max_clusters)

EmbedFinishEnabled == pc = "embed" /\ ~LoopCondition(remaining, clusters, max_clusters)

\* lines 18-126: the call run by an interpreter that always executes the
\* next statement: the function is sequential and single-threaded, so a step
\* that can be taken is taken.  For the three steps that compute clusters
\* weak fairness is written out, the step's guard standing for ENABLED
FairSteps ==
    /\ WF_vars(Enter)
    /\ WF_vars(SkipGroup)
    /\ WF_vars(Return)
    /\ (<>[]ProcessGroupEnabled => []<><<ProcessGroup>>_vars)
    /\ (<>[]EmbedIterEnabled => []<><<EmbedIter>>_vars)
    /\ (<>[]EmbedFinishEnabled => []<><<EmbedFinish>>_vars)

\* one call on the inputs of the groups sweep
InitGroups == TypeLocalsInit /\ InitGroupsSweep

SpecFair == InitGroups /\ [][Next]_vars /\ FairSteps

\* lines 18-28: the caller calls again with the same argument objects once
\* the call has returned or raised.  Entering the function binds the
\* parameters only: every local is assigned at its own line (63-64, 67, 71-74,
\* 187-190) before it is read, so until then the variables still show what
\* the call before left in them
CallAgain ==
    /\ pc \in {"done", "raised"}
    /\ invocation < MaxCalls
    /\ invocation' = invocation + 1
    /\ pc' = "start"
    /\ error' = NoError
    /\ UNCHANGED <<inputs, max_clusters, normalized, results, gi, valid_indices,
                   group_medoid, cluster_entries, emblocals, discarded>>

\* calls in a row on the inputs of the configuration sweep
InitRepeated == TypeLocalsInit /\ InitConfigSweep

NextRepeated == Next \/ CallAgain

SpecRepeated == InitRepeated /\ [][NextRepeated]_vars

----------------------------------------------------------------------------
(* Vocabulary of the properties.                                           *)

NumItems == Len(embeddings.rows)

\* the in-range indices of an index list, as a set
Filtered(indices) == {i \in Range(indices) : 0 <= i /\ i < NumItems}

\* the index list the call was given for a folder
IndicesOf(folder) ==
    LET k == CHOOSE j \in DOMAIN folder_to_indices : folder_to_indices[j].folder = folder
    IN folder_to_indices[k].indices

Emitted == Range(results)
ClustersOf(r) == Range(r.result.clusters)
TagClustersOf(r) == {c \in ClustersOf(r) : c.cluster_type = "tag"}
EmbClustersOf(r) == {c \in ClustersOf(r) : c.cluster_type = "embedding"}
Members(c) == Range(c.members)

TagsSupplied == tags_per_index # None /\ DOMAIN tags_per_index[1] # {}

\* the configuration fails one of the four validations
EmbeddingsNot2D == embeddings.ndim # 2
MinClusterSizeInvalid == min_cluster_size < 1
ClusterModeInvalid == cluster_mode # "simple" /\ cluster_mode # "hybrid"
ThresholdInvalid ==
    \/ embedding_cluster_threshold[1] <= 0
    \/ embedding_cluster_threshold[1] > embedding_cluster_threshold[2]
ConfigInvalid ==
    EmbeddingsNot2D \/ MinClusterSizeInvalid \/ ClusterModeInvalid \/ ThresholdInvalid

----------------------------------------------------------------------------
(* C1 as stated: with cluster_mode = "simple" every emitted group result   *)
(* has clusters = [] whatever use_tag_clusters, tags_per_index and the     *)
(* other settings are.  The code emits tag clusters in simple mode.        *)
C1_SimpleClustersAlwaysEmpty ==
    cluster_mode = "simple" => \A r \in Emitted : r.result.clusters = <<>>

(* C1 amended: with cluster_mode = "simple" no emitted group result holds  *)
(* an embedding cluster, and its clusters are [] whenever use_tag_clusters *)
(* is false or no tags are supplied, whatever min_cluster_size,            *)
(* embedding_cluster_threshold and max_embedding_clusters are.             *)
C1_SimpleNoEmbeddingClusters ==
    cluster_mode = "simple" =>
        \A r \in Emitted :
            /\ EmbClustersOf(r) = {}
            /\ (~use_tag_clusters \/ ~TagsSupplied) => r.result.clusters = <<>>

\* a simple-mode result without clusters for a group whose items could be
\* clustered by embedding (two in-range items, min_cluster_size 1)
C1_Witness ==
    /\ cluster_mode = "simple"
    /\ min_cluster_size = 1
    /\ ~use_tag_clusters
    /\ TagsSupplied
    /\ \E r \in Emitted : r.result.size >= 2 /\ r.result.clusters = <<>>

----------------------------------------------------------------------------
\* the in-range indices of a group that carry a tag whose normal form is tag
Carriers(indices, tag) ==
    {i \in Filtered(indices) :
        /\ i \in DOMAIN tags_per_index[1]
        /\ \E k \in DOMAIN tags_per_index[1][i] :
              /\ tags_per_index[1][i][k] # NoneTag
              /\ NormalizeTag(tags_per_index[1][i][k]) = tag}

\* the non-empty normal forms of the tags of the in-range indices of a group
TagsCarried(indices) ==
    UNION {{NormalizeTag(raw) : raw \in Range(tags_per_index[1][i]) \ {NoneTag}} :
              i \in DOMAIN tags_per_index[1] \cap Filtered(indices)} \ {<<>>}

(* C2: when use_tag_clusters is true and tags are supplied, in any cluster *)
(* mode, the tag clusters of a group are exactly the normalized tags       *)
(* carried by at least min_cluster_size distinct valid indices of the      *)
(* group, one cluster per tag, and the members of a cluster are exactly    *)
(* the distinct valid indices carrying its tag.                            *)
C2_TagClustersExact ==
    (use_tag_clusters /\ tags_per_index # None) =>
        \A r \in Emitted :
            LET indices == IndicesOf(r.folder)
                tagentries == SelectSeq(r.result.clusters, LAMBDA c : c.cluster_type = "tag")
            IN /\ {c.tag : c \in TagClustersOf(r)} =
                    {t \in TagsCarried(indices) :
                        Cardinality(Carriers(indices, t)) >= min_cluster_size}
               /\ \A j, k \in DOMAIN tagentries :
                     tagentries[j].tag = tagentries[k].tag => j = k
               /\ \A c \in TagClustersOf(r) :
                     /\ Members(c) = Carriers(indices, c.tag)
                     /\ Len(c.members) = Cardinality(Members(c))

\* a default-mode result in which one index is a member of two tag clusters
C2_Witness ==
    /\ cluster_mode = "simple"
    /\ \E r \in Emitted : \E c, d \in TagClustersOf(r) :
          c.tag # d.tag /\ Members(c) \cap Members(d) # {} /\ Members(c) # Members(d)

----------------------------------------------------------------------------
(* C3: in hybrid mode no index is a member of both a tag cluster and an    *)
(* embedding cluster of a group, and the embedding clusterer only works on *)
(* valid indices that are in no emitted tag cluster.                       *)
C3_TagEmbeddingDisjoint ==
    cluster_mode = "hybrid" =>
        /\ \A r \in Emitted : \A c \in TagClustersOf(r), e \in EmbClustersOf(r) :
              Members(c) \cap Members(e) = {}
        /\ pc = "embed" =>
              LET tagged == UNION {Range(cluster_entries[k].members) : k \in DOMAIN cluster_entries}
                  seen == Range(remaining) \cup assigned \cup UNION {Range(clusters[k]) : k \in DOMAIN clusters}
              IN /\ seen \cap tagged = {}
                 /\ seen \subseteq Range(valid_indices)

\* a hybrid result holding a tag cluster and an embedding cluster
C3_Witness ==
    /\ cluster_mode = "hybrid"
    /\ \E r \in Emitted : TagClustersOf(r) # {} /\ EmbClustersOf(r) # {}

----------------------------------------------------------------------------
(* C4: the medoid_index of every emitted group result is one of the        *)
(* group's in-range indices, and the medoid_index of every emitted cluster *)
(* is one of the cluster's members.                                        *)
C4_MedoidMembership ==
    \A r \in Emitted :
        /\ r.result.medoid_index \in Filtered(IndicesOf(r.folder))
        /\ \A c \in ClustersOf(r) : c.medoid_index \in Members(c)

\* a result whose medoid is not at the first position of the group, with a
\* cluster whose medoid is not its smallest member
C4_Witness ==
    \E r \in Emitted :
        /\ r.result.medoid_index # IndicesOf(r.folder)[1]
        /\ \E c \in ClustersOf(r) : c.medoid_index # c.members[1]

----------------------------------------------------------------------------
(* C5: every emitted cluster, tag or embedding, has size >=                *)
(* min_cluster_size; smaller candidates are dropped.                       *)
C5_ClusterMinSize ==
    \A r \in Emitted : \A c \in ClustersOf(r) :
        /\ c.size >= min_cluster_size
        /\ c.size = Len(c.members)
        /\ c.size >= 1

\* min_cluster_size 2: a tag cluster and an embedding cluster of two members
\* are emitted, and a tag carried by a single index of a group has no cluster
C5_Witness ==
    /\ min_cluster_size = 2
    /\ \E r \in Emitted : \E c \in TagClustersOf(r) : c.size = 2
    /\ \E r \in Emitted : \E c \in EmbClustersOf(r) : c.size = 2
    /\ \E r \in Emitted : \E t \in TagsCarried(IndicesOf(r.folder)) :
          \A c \in TagClustersOf(r) : c.tag # t

----------------------------------------------------------------------------
(* C6: the call fails, and returns no result for any group, whenever       *)
(* embeddings is not 2-D, min_cluster_size < 1, cluster_mode is not simple *)
(* or hybrid, or the threshold is outside (0, 1]; the error is raised      *)
(* before any group is processed.  A threshold of exactly 1 is accepted.   *)
C6_ValidationFailsFast ==
    /\ ConfigInvalid =>
          /\ pc \in {"start", "raised"}
          /\ pc = "raised" => error # NoError
          /\ results = <<>>
          /\ gi = 0
          /\ valid_indices = <<>> /\ group_medoid = None /\ cluster_entries = <<>>
    /\ (/\ ~EmbeddingsNot2D /\ ~MinClusterSizeInvalid /\ ~ClusterModeInvalid
        /\ embedding_cluster_threshold[1] = embedding_cluster_threshold[2]) =>
          pc # "raised"

\* the call has failed on a threshold of 0 with everything else valid, for
\* groups that hold valid indices
C6_Witness ==
    /\ pc = "raised"
    /\ embedding_cluster_threshold = <<0, 1>>
    /\ ~EmbeddingsNot2D /\ ~MinClusterSizeInvalid /\ ~ClusterModeInvalid
    /\ \E k \in DOMAIN folder_to_indices : Filtered(folder_to_indices[k].indices) # {}

----------------------------------------------------------------------------
\* the folders among the first n groups that have an in-range index
FoldersWithValidIndex(n) ==
    {folder_to_indices[k].folder :
        k \in {j \in DOMAIN folder_to_indices : j <= n /\ Filtered(folder_to_indices[j].indices) # {}}}

(* C7: out-of-range indices, negative or >= N, are filtered and cause no   *)
(* error; the result has an entry for exactly the groups with at least one *)
(* in-range index.                                                         *)
C7_OutOfRangeFiltered ==
    /\ ~ConfigInvalid => pc # "raised" /\ error = NoError
    /\ pc = "done" =>
          /\ {r.folder : r \in Emitted} = FoldersWithValidIndex(Len(folder_to_indices))
          /\ Len(results) = Cardinality(FoldersWithValidIndex(Len(folder_to_indices)))
    /\ pc = "loop" => {r.folder : r \in Emitted} = FoldersWithValidIndex(gi - 1)
    /\ \A r \in Emitted :
          \A c \in ClustersOf(r) : Members(c) \subseteq Filtered(IndicesOf(r.folder))

\* the call has returned a single entry: one group holds only out-of-range
\* indices, a negative one among them, the other mixes a valid index with
\* an index past the end
C7_Witness ==
    /\ pc = "done"
    /\ Len(results) = 1
    /\ \E g \in Range(folder_to_indices) :
          Filtered(g.indices) = {} /\ \E i \in Range(g.indices) : i < 0
    /\ \E g \in Range(folder_to_indices) :
          Filtered(g.indices) # {} /\ \E i \in Range(g.indices) : i >= NumItems

----------------------------------------------------------------------------
\* the group whose result was stored last is the group the locals of the
\* embedding clusterer belong to
LastIsCurrent ==
    /\ pc \in {"loop", "done"}
    /\ results # <<>>
    /\ gi >= 2
    /\ results[Len(results)].folder = folder_to_indices[gi - 1].folder

(* C8: in hybrid mode with a positive max_embedding_clusters a group never *)
(* has more than max_embedding_clusters embedding clusters, and the items  *)
(* still unclustered when the cap is reached are in no cluster of the      *)
(* result.                                                                 *)
C8_EmbeddingClusterCap ==
    (/\ cluster_mode = "hybrid"
     /\ max_embedding_clusters # None
     /\ max_embedding_clusters[1] >= 1) =>
        /\ \A r \in Emitted :
              Len(SelectSeq(r.result.clusters, LAMBDA c : c.cluster_type = "embedding"))
                 <= max_embedding_clusters[1]
        /\ pc = "embed" => Len(clusters) <= max_embedding_clusters[1]
        /\ LastIsCurrent =>
              \A i \in Range(remaining) :
                 \A c \in ClustersOf(results[Len(results)]) : i \notin Members(c)

\* the cap was reached with items left over: the last result holds
\* max_embedding_clusters embedding clusters and remaining is not empty
C8_Witness ==
    /\ cluster_mode = "hybrid"
    /\ max_embedding_clusters # None
    /\ LastIsCurrent
    /\ Cardinality(EmbClustersOf(results[Len(results)])) = max_embedding_clusters[1]
    /\ remaining # <<>>

----------------------------------------------------------------------------
(* C9: a finished embedding cluster with fewer than min_cluster_size       *)
(* members is discarded and its seed and absorbed members are not returned *)
(* to remaining: none of them is a seed or a member of a later embedding   *)
(* cluster of the group.                                                   *)
C9_DiscardedNeverReturn ==
    /\ pc = "embed" =>
          /\ discarded \cap Range(remaining) = {}
          /\ \A k \in DOMAIN clusters : discarded \cap Range(clusters[k]) = {}
          /\ discarded \subseteq assigned
    /\ LastIsCurrent /\ cluster_mode = "hybrid" =>
          \A c \in EmbClustersOf(results[Len(results)]) : discarded \cap Members(c) = {}

\* a cluster of a seed and an absorbed member was discarded, and a later
\* cluster of the same group was kept
C9_Witness ==
    /\ LastIsCurrent
    /\ cluster_mode = "hybrid"
    /\ Cardinality(discarded) >= 2
    /\ \E d, e \in discarded : d # e /\ Absorbs(e, <<d>>, normalized, embedding_cluster_threshold)
    /\ \E c \in EmbClustersOf(results[Len(results)]) :
          \A m \in Members(c) : \A d \in discarded :
             \E p, q \in DOMAIN valid_indices :
                p < q /\ valid_indices[p] = d /\ valid_indices[q] = m

----------------------------------------------------------------------------
\* position p of indices holds the first maximum of the similarities to the
\* centroid of indices
FirstMaxAt(indices, p) ==
    LET vec(q) == normalized[indices[q] + 1]
        total == SumRows(indices, normalized)
        sim(q) == IF total = ZeroVec THEN 0 ELSE Dot(vec(q), total)
    IN /\ \A q \in DOMAIN indices : sim(q) <= sim(p)
       /\ \A q \in DOMAIN indices : q < p => sim(q) < sim(p)

(* C10: the medoid of a group is the index of maximal similarity to the    *)
(* centroid of the group's valid index list, and of several positions of   *)
(* maximal similarity the first in the list's order.                       *)
C10_MedoidFirstMaximum ==
    \A r \in Emitted :
        LET valid == SelectSeq(IndicesOf(r.folder), LAMBDA i : 0 <= i /\ i < NumItems)
        IN /\ \E p \in DOMAIN valid :
                /\ FirstMaxAt(valid, p)
                /\ r.result.medoid_index = valid[p]
           /\ \A c \in EmbClustersOf(r) :
                \E p \in DOMAIN c.members :
                   FirstMaxAt(c.members, p) /\ c.medoid_index = c.members[p]
           /\ \A c \in TagClustersOf(r) :
                LET carriers == DedupeKeepOrder(SelectSeq(valid, LAMBDA i : i \in Members(c)))
                IN \E p \in DOMAIN carriers :
                      FirstMaxAt(carriers, p) /\ c.medoid_index = carriers[p]

\* two positions of the group tie for the maximum and the medoid is the
\* index at the first of them, which is not the smaller index
C10_Witness ==
    \E r \in Emitted :
        LET valid == SelectSeq(IndicesOf(r.folder), LAMBDA i : 0 <= i /\ i < NumItems)
        IN /\ Len(valid) >= 2
           /\ FirstMaxAt(valid, 1)
           /\ \E q \in 2..Len(valid) :
                 /\ valid[q] < valid[1]
                 /\ Dot(normalized[valid[q] + 1], SumRows(valid, normalized))
                      = Dot(normalized[valid[1] + 1], SumRows(valid, normalized))
           /\ SumRows(valid, normalized) # ZeroVec
           /\ r.result.medoid_index = valid[1]

----------------------------------------------------------------------------
\* the tag entries of a group result, in output order
TagEntriesOf(r) == SelectSeq(r.result.clusters, LAMBDA c : c.cluster_type = "tag")

\* tag name s precedes tag name t: s is a proper prefix of t, or s has the
\* smaller character at the first position where they differ
TagNameBefore(s, t) ==
    \E p \in 1..Len(t) :
        /\ \A q \in 1..(p - 1) : q <= Len(s) /\ s[q] = t[q]
        /\ (p > Len(s) \/ (s[p] # t[p] /\ CodePoint(s[p]) < CodePoint(t[p])))

(* C12: within a group, the emitted tag clusters are ordered by            *)
(* non-increasing size, and tag clusters of equal size by ascending tag    *)
(* name, independently of the order in which the tags were encountered.    *)
C12_TagClusterOrder ==
    \A r \in Emitted :
        LET tagentries == TagEntriesOf(r)
        IN \A j, k \in DOMAIN tagentries :
              j < k =>
                 \/ tagentries[j].size > tagentries[k].size
                 \/ /\ tagentries[j].size = tagentries[k].size
                    /\ TagNameBefore(tagentries[j].tag, tagentries[k].tag)

\* two tag clusters of equal size emitted against the encounter order: the
\* first index of the group carries the tag of the later cluster only
C12_Witness ==
    \E r \in Emitted :
        LET tagentries == TagEntriesOf(r)
            indices == IndicesOf(r.folder)
        IN \E j, k \in DOMAIN tagentries :
              /\ j < k
              /\ tagentries[j].size = tagentries[k].size
              /\ indices # <<>>
              /\ indices[1] \in Members(tagentries[k])
              /\ indices[1] \notin Members(tagentries[j])
----------------------------------------------------------------------------
\* the embedding entries of a group result, in output order
EmbEntriesOf(r) == SelectSeq(r.result.clusters, LAMBDA c : c.cluster_type = "embedding")

SmallestMember(c) == CHOOSE m \in Members(c) : \A n \in Members(c) : m <= n

(* C13: within a group, the emitted embedding clusters are ordered by      *)
(* non-increasing size, ties broken by ascending smallest member index,    *)
(* and the k-th embedding cluster in output order, k from 1, has           *)
(* label_hint "embedding_k" and an empty tag.                              *)
C13_EmbeddingClusterOrder ==
    \A r \in Emitted :
        LET embentries == EmbEntriesOf(r)
        IN /\ \A j, k \in DOMAIN embentries :
                 j < k =>
                    \/ embentries[j].size > embentries[k].size
                    \/ /\ embentries[j].size = embentries[k].size
                       /\ SmallestMember(embentries[j]) < SmallestMember(embentries[k])
           /\ \A k \in DOMAIN embentries :
                 /\ embentries[k].label_hint = <<"embedding_", k>>
                 /\ embentries[k].tag = <<>>

\* two embedding clusters of equal size emitted against their formation
\* order: the seed of the later one is the first index of the group
C13_Witness ==
    \E r \in Emitted :
          LET embentries == EmbEntriesOf(r)
              indices == IndicesOf(r.folder)
          IN \E j, k \in DOMAIN embentries :
                /\ j < k
                /\ embentries[j].size = embentries[k].size
                /\ indices[1] \in Members(embentries[k])
----------------------------------------------------------------------------
\* the positions of an index list that hold an in-range index
InRangePositions(indices) ==
    {p \in DOMAIN indices : 0 <= indices[p] /\ indices[p] < NumItems}

(* C14: the members of every emitted cluster are strictly ascending, so    *)
(* no index is repeated even when the group's index list repeats it, and   *)
(* the cluster's size is the length of its members; the size of a group    *)
(* result is the number of in-range entries of the group's index list,     *)
(* repetitions counted.                                                    *)
C14_MembersSortedSizes ==
    \A r \in Emitted :
        /\ \A c \in ClustersOf(r) :
              /\ \A p, q \in DOMAIN c.members : p < q => c.members[p] < c.members[q]
              /\ c.size = Len(c.members)
        /\ r.result.size = Cardinality(InRangePositions(IndicesOf(r.folder)))

\* a group whose index list repeats an in-range index and lists two members
\* of one cluster in descending order, the repeated index among them
C14_Witness ==
    \E r \in Emitted :
        LET indices == IndicesOf(r.folder)
        IN /\ r.result.size > Cardinality(Filtered(indices))
           /\ \E c \in ClustersOf(r) : \E p, q, u \in DOMAIN indices :
                 /\ p < q /\ indices[p] > indices[q]
                 /\ {indices[p], indices[q]} \subseteq Members(c)
                 /\ u # p /\ indices[u] = indices[p]
----------------------------------------------------------------------------
UpperCase == {"C", "D"}

\* t is raw without its leading and trailing blanks and with every letter
\* in lower case
IsTrimmedLowerOf(t, raw) ==
    \E a \in 0..Len(raw) :
        /\ a + Len(t) <= Len(raw)
        /\ \A p \in 1..a : raw[p] = " "
        /\ \A p \in (a + Len(t) + 1)..Len(raw) : raw[p] = " "
        /\ t # <<>> => t[1] # " " /\ t[Len(t)] # " "
        /\ \A p \in 1..Len(t) : t[p] = Lower(raw[a + p])

\* the raw tags supplied for an index, None entries left out
RawTagsOf(i) ==
    IF i \in DOMAIN tags_per_index[1] THEN Range(tags_per_index[1][i]) \ {NoneTag} ELSE {}

(* C15: tags are bucketed by their trimmed, lower-cased form.  Within a    *)
(* group every emitted tag is non-empty, trimmed and lower-case, no two    *)
(* tag clusters carry the same tag, and the members of a tag cluster are   *)
(* the valid indices of the group with a raw tag, other than None, whose   *)
(* trimmed lower-cased form is the cluster's tag: raw tags that agree      *)
(* after trimming and lower-casing go to the same cluster, None and blank  *)
(* tags to none.                                                           *)
C15_TagNormalForm ==
    (use_tag_clusters /\ tags_per_index # None) =>
        \A r \in Emitted :
            LET tagentries == TagEntriesOf(r)
                indices == IndicesOf(r.folder)
            IN /\ \A k \in DOMAIN tagentries :
                     LET t == tagentries[k].tag
                     IN /\ t # <<>>
                        /\ t[1] # " " /\ t[Len(t)] # " "
                        /\ \A p \in DOMAIN t : t[p] \notin UpperCase
                        /\ \A j \in DOMAIN tagentries : tagentries[j].tag = t => j = k
                        /\ Members(tagentries[k]) =
                              {i \in Filtered(indices) :
                                  \E raw \in RawTagsOf(i) : IsTrimmedLowerOf(t, raw)}

\* a tag cluster with two members of which one carries the tag only in
\* upper case, next to a None and a blank tag, and another only with blanks
\* around it
C15_Witness ==
    \E r \in Emitted : \E c, d \in TagClustersOf(r) :
        /\ \E i \in Members(c) :
              /\ c.tag \notin RawTagsOf(i)
              /\ NoneTag \in Range(tags_per_index[1][i])
              /\ <<" ">> \in RawTagsOf(i)
              /\ \E raw \in RawTagsOf(i) : \E p \in DOMAIN raw : raw[p] \in UpperCase
        /\ Len(c.members) >= 2
        /\ \E i \in Members(d) : \E raw \in RawTagsOf(i) :
              Len(raw) > Len(d.tag) /\ IsTrimmedLowerOf(d.tag, raw)
----------------------------------------------------------------------------
\* the result of the group of a folder when the call is given max for
\* max_embedding_clusters and its other inputs as they are
ResultWithMax(folder, max) ==
    GroupResult(IndicesOf(folder), _normalize_embeddings(embeddings.rows),
                use_tag_clusters, tags_per_index, min_cluster_size, cluster_mode,
                embedding_cluster_threshold, NormalizeMaxClusters(max))

(* C16: a max_embedding_clusters of 0 or less is accepted, not rejected:   *)
(* the call raises only when another setting is invalid, and it returns    *)
(* for every group exactly the result it returns on the same inputs with   *)
(* max_embedding_clusters = None (unlimited).                              *)
C16_NonPositiveCapIsUnlimited ==
    (max_embedding_clusters # None /\ Value(max_embedding_clusters) <= 0) =>
        /\ pc = "raised" => ConfigInvalid
        /\ pc = "done" =>
              \A r \in Emitted : r.result = ResultWithMax(r.folder, None)

\* a returned hybrid result with two embedding clusters under a
\* max_embedding_clusters of 0 or less
C16_Witness ==
    /\ max_embedding_clusters # None
    /\ Value(max_embedding_clusters) <= 0
    /\ pc = "done"
    /\ \E r \in Emitted : Cardinality(EmbClustersOf(r)) >= 2
----------------------------------------------------------------------------
(* C17: for every input that passes validation the selector's error for an *)
(* empty index list is never raised out of the call: at the group level,   *)
(* for a tag cluster and for an embedding cluster the selector receives a  *)
(* non-empty index list, and the call does not raise.                      *)
C17_EmptyIndexSetNeverRaised ==
    /\ error # EmptyIndexSet
    /\ ~ConfigInvalid => pc # "raised" /\ error = NoError

\* a returned call that skipped a group without a valid index and ran the
\* selector for a group, for a tag cluster and for an embedding cluster
C17_Witness ==
    /\ pc = "done"
    /\ \E g \in Range(folder_to_indices) :
          Filtered(g.indices) = {} /\ \A r \in Emitted : r.folder # g.folder
    /\ \E r \in Emitted : TagClustersOf(r) # {} /\ EmbClustersOf(r) # {}
----------------------------------------------------------------------------
(* C18: embedding clusters are produced only in hybrid mode: with          *)
(* cluster_mode = "simple" no emitted cluster has cluster_type             *)
(* "embedding"; and with use_tag_clusters false, or no tags supplied, no   *)
(* emitted cluster has cluster_type "tag".                                 *)
C18_ClusterTypesGated ==
    \A r \in Emitted : \A k \in DOMAIN r.result.clusters :
        LET c == r.result.clusters[k]
        IN /\ c.cluster_type \in {"tag", "embedding"}
           /\ cluster_mode = "simple" => c.cluster_type # "embedding"
           /\ (~use_tag_clusters \/ ~TagsSupplied) => c.cluster_type # "tag"

\* a hybrid result with embedding clusters and no tag cluster for a group
\* whose valid indices carry tags, use_tag_clusters being false
C18_Witness ==
    /\ cluster_mode = "hybrid"
    /\ ~use_tag_clusters
    /\ TagsSupplied
    /\ \E r \in Emitted :
          /\ TagsCarried(IndicesOf(r.folder)) # {}
          /\ EmbClustersOf(r) # {}
          /\ TagClustersOf(r) = {}
----------------------------------------------------------------------------
(* C19: the result entry of a group depends only on that group's index     *)
(* list, the embeddings, the tags and the configuration: every field of    *)
(* the entry the call returns is what these alone determine, whichever     *)
(* other groups the input mapping holds and in whatever order.             *)
C19_GroupResultIndependent ==
    pc = "done" =>
        \A r \in Emitted : r.result = ResultWithMax(r.folder, max_embedding_clusters)

\* two groups that share an index, each with an embedding cluster holding it
C19_Witness ==
    /\ pc = "done"
    /\ \E r1, r2 \in Emitted :
          /\ r1.folder # r2.folder
          /\ \E c1 \in EmbClustersOf(r1), c2 \in EmbClustersOf(r2) :
                Members(c1) \cap Members(c2) # {}
----------------------------------------------------------------------------
\* what the inputs of the call alone determine as its return value: the
\* groups with an in-range index, in input order, each with its result
ResultsOfInputs ==
    LET groups == SelectSeq(folder_to_indices, LAMBDA g : Filtered(g.indices) # {})
    IN [k \in DOMAIN groups |->
           [folder |-> groups[k].folder,
            result |-> ResultWithMax(groups[k].folder, max_embedding_clusters)]]

(* C20: no step of compute_folder_medoids changes its inputs (the groups   *)
(* mapping and its index lists, the embedding matrix, the tags mapping,    *)
(* the settings), and no state is kept between calls: each call, the       *)
(* first and the one after it, returns what its inputs alone determine    *)
(* (the step that returns hands back results as it stands).                *)
C20_InputsUnchangedNoState ==
    [][/\ inputs' = inputs
       /\ pc' = "done" => results' = results /\ results = ResultsOfInputs]_vars

\* a second call has returned clusters of both types for embeddings whose
\* rows are not unit rows
C20_Witness ==
    /\ invocation = 2
    /\ pc = "done"
    /\ normalized # embeddings.rows
    /\ \E r \in Emitted : TagClustersOf(r) # {} /\ EmbClustersOf(r) # {}
----------------------------------------------------------------------------
\* every cosine_to_centroid of the output: of the groups and of their clusters
CosinesOf(r) == {r.result.cosine_to_centroid} \cup {c.cosine_to_centroid : c \in ClustersOf(r)}

\* the real number sim.num / sqrt(sim.den2) lies in [-1.0001, 1.0001], that
\* is num^2 <= (1 + 20001 / 10^8) * den2.  With 10^8 = 5000 * 20000 this is
\* 5000 * (num^2 - den2) <= den2 + den2 / 20000, and for integers
\* num^2 - den2 <= (den2 + den2 \div 20000) \div 5000, which keeps every
\* intermediate value small
WithinUnitTolerance(sim) ==
    IF sim.den2 = 0 THEN sim.num = 0
    ELSE sim.num * sim.num - sim.den2 <= (sim.den2 + sim.den2 \div 20000) \div 5000

(* C21: every cosine_to_centroid value in the output, at group level and   *)
(* in every cluster, lies in [-1.0001, 1.0001].                            *)
C21_CosineBound ==
    \A r \in Emitted : \A sim \in CosinesOf(r) : WithinUnitTolerance(sim)

\* a group whose medoid is strictly between 0 and 1 from the centroid, with
\* a cluster whose medoid coincides with its centroid
C21_Witness ==
    \E r \in Emitted :
        /\ r.result.cosine_to_centroid.num > 0
        /\ r.result.cosine_to_centroid.num * r.result.cosine_to_centroid.num
              < r.result.cosine_to_centroid.den2
        /\ \E c \in ClustersOf(r) :
              /\ c.cosine_to_centroid.den2 > 0
              /\ c.cosine_to_centroid.num * c.cosine_to_centroid.num = c.cosine_to_centroid.den2
----------------------------------------------------------------------------
\* the sum of the normalized rows of a set of items
RECURSIVE SetSum(_)
SetSum(P) ==
    IF P = {} THEN ZeroVec
    ELSE LET x == CHOOSE y \in P : TRUE
         IN VAdd(normalized[x + 1], SetSum(P \ {x}))

\* the cosine of item x to the re-normalized mean of the items of P reaches
\* the threshold
NearCentroid(x, P) ==
    SimilarityAtLeast(Similarity(normalized[x + 1], SetSum(P)), embedding_cluster_threshold)

\* twice the cosine of items x and y is at most the threshold
FarApart(x, y) ==
    2 * Dot(normalized[x + 1], normalized[y + 1]) * embedding_cluster_threshold[2]
        <= embedding_cluster_threshold[1] * UnitScale * UnitScale

\* the items of a group are four and form two pairs: similar within a pair,
\* dissimilar (cosine at most half the threshold) across the pairs
TwoTightPairs(items) ==
    /\ Cardinality(items) = 4
    /\ \E a, b \in items :
          /\ a # b
          /\ NearCentroid(a, {b})
          /\ \E c, d \in items \ {a, b} :
                /\ c # d
                /\ NearCentroid(c, {d})
                /\ \A x \in {a, b}, y \in {c, d} : FarApart(x, y)

\* a step of the while loop of _cluster_by_embedding
IsEmbedIter == pc = "embed" /\ pc' = "embed"

(* C22: during the scan for one embedding cluster an unassigned item is    *)
(* absorbed if and only if its similarity to the running centroid, the     *)
(* re-normalized mean of the seed and of every member absorbed before it,  *)
(* is at least the threshold.  Consequently, in hybrid mode without tag    *)
(* clusters, with min_cluster_size = 1 and no cap below 2, a group of four *)
(* items that form two pairs, similar within a pair and dissimilar across, *)
(* has exactly two embedding clusters, of size 2 each.                     *)
C22_RunningCentroidAbsorption ==
    [][/\ IsEmbedIter =>
             LET seed == Head(remaining)
                 absorbed == assigned' \ assigned
             IN \A p \in 2..Len(remaining) :
                   LET before == {seed} \cup
                                   {remaining[q] : q \in {j \in 2..(p - 1) :
                                                            remaining[j] \in absorbed}}
                   IN remaining[p] \in absorbed <=> NearCentroid(remaining[p], before)
       /\ (/\ cluster_mode = "hybrid"
           /\ min_cluster_size = 1
           /\ ~use_tag_clusters
           /\ (max_clusters = None \/ Value(max_clusters) >= 2)) =>
             \A r \in Emitted :
                 TwoTightPairs(Filtered(IndicesOf(r.folder))) =>
                    /\ Cardinality(EmbClustersOf(r)) = 2
                    /\ \A c \in EmbClustersOf(r) : c.size = 2]_vars

\* in one call: a group of two pairs listed alternately has its two clusters
\* of size 2, and in the other group a cluster holds an item whose cosine to
\* the cluster's seed, the first of its members in the group's list, is
\* below the threshold
C22_Witness ==
    /\ \E r \in Emitted :
          LET indices == IndicesOf(r.folder)
          IN /\ TwoTightPairs(Filtered(indices))
             /\ \E c, d \in EmbClustersOf(r) :
                   /\ c # d /\ c.size = 2 /\ d.size = 2
                   /\ indices[1] \in Members(c) /\ indices[2] \in Members(d)
    /\ \E r \in Emitted :
          LET indices == IndicesOf(r.folder)
          IN \E c \in EmbClustersOf(r) : \E x \in Members(c) :
                LET seed == indices[CHOOSE p \in DOMAIN indices :
                                       /\ indices[p] \in Members(c)
                                       /\ \A q \in 1..(p - 1) : indices[q] \notin Members(c)]
                IN ~NearCentroid(x, {seed})
----------------------------------------------------------------------------
\* the items the embedding pass of the current group works on, in
\* first-seen order: the first occurrences, in valid_indices, of the indices
\* that are in no tag cluster of the group
EligibleInOrder ==
    LET tagged == UNION {Members(cluster_entries[k]) : k \in DOMAIN cluster_entries}
        first == {p \in DOMAIN valid_indices :
                     /\ valid_indices[p] \notin tagged
                     /\ \A q \in 1..(p - 1) : valid_indices[q] # valid_indices[p]}
    IN SelectSeq([p \in DOMAIN valid_indices |->
                     IF p \in first THEN <<valid_indices[p]>> ELSE <<>>],
                 LAMBDA e : e # <<>>)

\* s without the items of the set gone, order kept
Without(s, gone) == SelectSeq(s, LAMBDA x : x \notin gone)

(* C23: the greedy embedding clusterer is single-pass and order-           *)
(* preserving.  At every iteration the seed is the earliest item, in the   *)
(* first-seen order of the group, that is not yet assigned; an item        *)
(* rejected at its turn in the scan stays out of the cluster, whatever the *)
(* centroid becomes afterwards; and the rejected items are remaining for   *)
(* the following clusters in their relative order.                         *)
C23_SinglePassOrderPreserving ==
    [][IsEmbedIter =>
          LET seed == Head(remaining)
              absorbed == assigned' \ assigned
              unassigned == SelectSeq(EligibleInOrder, LAMBDA e : e[1] \notin assigned)
          IN /\ unassigned # <<>> /\ seed = unassigned[1][1]
             /\ remaining = [p \in DOMAIN unassigned |-> unassigned[p][1]]
             /\ seed \in absorbed
             /\ remaining' = Without(Tail(remaining), absorbed)
             /\ \A p \in 2..Len(remaining) :
                   LET before == {seed} \cup
                                   {remaining[q] : q \in {j \in 2..(p - 1) :
                                                            remaining[j] \in absorbed}}
                   IN ~NearCentroid(remaining[p], before) =>
                         remaining[p] \in Range(remaining')]_vars

\* after an iteration an item is remaining that was rejected by the last
\* cluster formed although it is within the threshold of that cluster's
\* final centroid
C23_Witness ==
    /\ pc = "embed"
    /\ clusters # <<>>
    /\ \E x \in Range(remaining) : NearCentroid(x, Range(clusters[Len(clusters)]))
----------------------------------------------------------------------------
(* C24: in the clusters list of every group all clusters of type tag come  *)
(* before all clusters of type embedding.                                  *)
C24_TagBeforeEmbedding ==
    \A r \in Emitted : \A j, k \in DOMAIN r.result.clusters :
        (/\ r.result.clusters[j].cluster_type = "embedding"
         /\ r.result.clusters[k].cluster_type = "tag") => k < j

\* a clusters list of three or more entries with both types
C24_Witness ==
    \E r \in Emitted :
        /\ Len(r.result.clusters) >= 3
        /\ r.result.clusters[1].cluster_type = "tag"
        /\ r.result.clusters[Len(r.result.clusters)].cluster_type = "embedding"
----------------------------------------------------------------------------
(* C25: the embedding clusters of one group are pairwise disjoint: every   *)
(* index belongs to at most one embedding cluster, also when the group's   *)
(* index list repeats that index.                                          *)
C25_EmbeddingClustersDisjoint ==
    \A r \in Emitted :
        LET embentries == EmbEntriesOf(r)
        IN \A j, k \in DOMAIN embentries :
              j # k => Members(embentries[j]) \cap Members(embentries[k]) = {}

\* two embedding clusters of a group whose index list repeats a member of
\* one of them
C25_Witness ==
    \E r \in Emitted :
        LET embentries == EmbEntriesOf(r)
            indices == IndicesOf(r.folder)
        IN /\ Len(embentries) >= 2
           /\ \E p, q \in DOMAIN indices :
                 p # q /\ indices[p] = indices[q] /\ indices[p] \in Members(embentries[1])
----------------------------------------------------------------------------
\* max_embedding_clusters sets no limit: it is None, or 0 or less
Unlimited == max_embedding_clusters = None \/ Value(max_embedding_clusters) <= 0

(* C26: in hybrid mode with min_cluster_size = 1 and max_embedding_clusters *)
(* unlimited (None, or 0 or less), every in-range index of a group is a    *)
(* member of at least one emitted cluster of that group, a tag cluster or  *)
(* an embedding cluster: no item is dropped.                               *)
C26_HybridCoversEveryIndex ==
    (cluster_mode = "hybrid" /\ min_cluster_size = 1 /\ Unlimited) =>
        \A r \in Emitted :
            Filtered(IndicesOf(r.folder)) \subseteq UNION {Members(c) : c \in ClustersOf(r)}

\* such a result in which one index is covered by a tag cluster only and
\* another is alone in an embedding cluster
C26_Witness ==
    /\ cluster_mode = "hybrid" /\ min_cluster_size = 1 /\ Unlimited
    /\ \E r \in Emitted :
          /\ \E c \in EmbClustersOf(r) : c.size = 1
          /\ TagClustersOf(r) # {}
          /\ Cardinality(Filtered(IndicesOf(r.folder))) >= 3
----------------------------------------------------------------------------
\* the cap is reached: max_clusters clusters have been kept
CapReached == max_clusters # None /\ Len(clusters) >= Value(max_clusters)

(* C27: the cap max_embedding_clusters counts only kept clusters.  An      *)
(* iteration whose cluster has fewer than min_cluster_size members leaves  *)
(* the list of kept clusters as it is, one whose cluster is large enough   *)
(* makes it one longer; and the loop goes on seeding clusters until        *)
(* max_embedding_clusters clusters have been kept or remaining is empty:   *)
(* it ends in no other state.                                              *)
C27_CapCountsKeptClusters ==
    [][pc = "embed" =>
          IF pc' = "embed"
          THEN LET size == Cardinality(assigned' \ assigned)
               IN /\ remaining # <<>> /\ ~CapReached
                  /\ IF size >= min_cluster_size /\ size >= 1
                     THEN Len(clusters') = Len(clusters) + 1
                     ELSE clusters' = clusters
          ELSE remaining = <<>> \/ CapReached]_vars

\* under a cap a cluster was kept after another had been discarded: the
\* cap is reached by a kept cluster that holds a later item than a
\* discarded one
C27_Witness ==
    /\ pc = "embed"
    /\ discarded # {}
    /\ CapReached
    /\ \E d \in discarded : \E m \in Range(clusters[Len(clusters)]) :
          \E p, q \in DOMAIN valid_indices :
             /\ p < q /\ valid_indices[p] = d /\ valid_indices[q] = m
             /\ \A j \in 1..(q - 1) : valid_indices[j] # m
----------------------------------------------------------------------------
\* index i is given a raw tag whose trimmed lower-cased form is tag
CarriesTag(i, tag) == \E raw \in RawTagsOf(i) : IsTrimmedLowerOf(tag, raw)

(* C28: the members of every emitted cluster are in-range indices of the   *)
(* cluster's own group: a tag attached to an index that is out of range or *)
(* that only other groups list adds no member to the group's tag clusters; *)
(* and the size of every cluster is at most the size of its group.         *)
C28_MembersWithinGroup ==
    \A r \in Emitted : \A c \in ClustersOf(r) :
        /\ Members(c) \subseteq Filtered(IndicesOf(r.folder))
        /\ c.size <= r.result.size

\* a tag cluster whose tag is also carried by an out-of-range index the
\* group lists, and a tag cluster whose tag is also carried by an in-range
\* index that only another group lists
C28_Witness ==
    /\ \E r \in Emitted : \E c \in TagClustersOf(r) :
          \E i \in Range(IndicesOf(r.folder)) : i >= NumItems /\ CarriesTag(i, c.tag)
    /\ \E r \in Emitted : \E c \in TagClustersOf(r) :
          \E g \in Range(folder_to_indices) :
             \E j \in Filtered(g.indices) \ Filtered(IndicesOf(r.folder)) :
                CarriesTag(j, c.tag)
----------------------------------------------------------------------------
\* the call has returned or raised
Terminated == pc \in {"done", "raised"}

(* C29: every iteration of the clusterer's while loop takes at least the   *)
(* seed out of remaining, adds nothing to remaining and takes nothing out  *)
(* of assigned; and every call of compute_folder_medoids on finitely many  *)
(* groups eventually returns or raises.                                    *)
C29_Terminates ==
    /\ [][IsEmbedIter =>
             /\ Head(remaining) \notin Range(remaining')
             /\ Range(remaining') \subseteq Range(remaining)
             /\ Len(remaining') < Len(remaining)
             /\ assigned \subseteq assigned']_vars
    /\ <>Terminated

\* a call that returned after the loop ran for two groups, the second time
\* for several iterations, one of which discarded its cluster
C29_Witness ==
    /\ pc = "done"
    /\ Len(results) = 2
    /\ \A k \in 1..2 : EmbClustersOf(results[k]) # {}
    /\ discarded # {}
    /\ Len(clusters) >= 1
----------------------------------------------------------------------------
\* how many of the four validations the configuration fails
InvalidSettings ==
    Cardinality({k \in 1..4 : <<EmbeddingsNot2D, MinClusterSizeInvalid,
                                ClusterModeInvalid, ThresholdInvalid>>[k]})

(* C30: when the call fails on its configuration, the error is that of the *)
(* first invalid setting in the order embeddings shape, min_cluster_size,  *)
(* cluster_mode, embedding_cluster_threshold, however many settings are    *)
(* invalid.                                                                *)
C30_FirstInvalidSettingReported ==
    pc = "raised" /\ ConfigInvalid =>
       /\ EmbeddingsNot2D => error = "embeddings must be a 2D array"
       /\ ~EmbeddingsNot2D /\ MinClusterSizeInvalid =>
             error = "min_cluster_size must be >= 1"
       /\ ~EmbeddingsNot2D /\ ~MinClusterSizeInvalid /\ ClusterModeInvalid =>
             error = "cluster_mode must be one of ['hybrid', 'simple']"
       /\ ~EmbeddingsNot2D /\ ~MinClusterSizeInvalid /\ ~ClusterModeInvalid =>
             error = "embedding_cluster_threshold must be in (0, 1]"

\* the call has failed with min_cluster_size, cluster_mode and the threshold
\* all invalid and embeddings 2-D
C30_Witness ==
    /\ pc = "raised"
    /\ InvalidSettings = 3
    /\ ~EmbeddingsNot2D
====
